---- MODULE Spec2Model ----
(***************************************************************************)
(* Model of src/exposure_weight.cc (Enblend/Enfuse): the exposure weight   *)
(* function factory make_weight_function, the adapter for dynamically      *)
(* loaded weight functions, and the range checker check_weight_function.   *)
(*                                                                         *)
(* Strings that the code inspects character by character (the function     *)
(* name) are sequences of one-character strings.  Doubles are scaled       *)
(* integers: y_optimum and width in hundredths, weights in halves.         *)
(***************************************************************************)
EXTENDS FiniteSets, Integers, Sequences, TLC

(* ------------------------------ bounds --------------------------------- *)
MaxCalls == 2
MaxArgs == 3
MaxN == 3
NumThreads == 2

(* ------------------------- program constants --------------------------- *)
\* ExposureWeight(0.5, 0.25) in the two-argument adapter constructor
AdapterYOptimum == 50
AdapterWidth == 25
\* exit(1)
ExitFailure == 1

(* ------------------------------ inputs --------------------------------- *)
\* (y_optimum, width) in hundredths
Parameters == {<<40, 20>>, <<60, 30>>}
ArgStrings == {"sym", "k=v"}

RECURSIVE SeqsUpTo(_, _)
SeqsUpTo(S, n) ==
    IF n = 0 THEN {<<>>}
    ELSE LET shorter == SeqsUpTo(S, n - 1)
         IN shorter \cup {Append(s, x) : s \in {t \in shorter : Len(t) = n - 1}, x \in S}

ArgumentLists == SeqsUpTo(ArgStrings, MaxArgs)

UpperCase == <<"A","B","C","D","E","F","G","H","I","J","K","L","M",
               "N","O","P","Q","R","S","T","U","V","W","X","Y","Z">>
LowerCase == <<"a","b","c","d","e","f","g","h","i","j","k","l","m",
               "n","o","p","q","r","s","t","u","v","w","x","y","z">>

ToUpperChar(c) ==
    IF \E i \in 1..26 : LowerCase[i] = c
    THEN UpperCase[CHOOSE i \in 1..26 : LowerCase[i] = c]
    ELSE c

UpperAt(s, S) == [i \in 1..Len(s) |-> IF i \in S THEN ToUpperChar(s[i]) ELSE s[i]]

\* the string literals of make_weight_function
gauss == <<"g","a","u","s","s">>
gaussian == <<"g","a","u","s","s","i","a","n">>
lorentz == <<"l","o","r","e","n","t","z">>
lorentzian == <<"l","o","r","e","n","t","z","i","a","n">>
halfsine == <<"h","a","l","f","s","i","n","e">>
half_sine == <<"h","a","l","f","-","s","i","n","e">>
fullsine == <<"f","u","l","l","s","i","n","e">>
full_sine == <<"f","u","l","l","-","s","i","n","e">>
bisquare == <<"b","i","s","q","u","a","r","e">>
bi_square == <<"b","i","-","s","q","u","a","r","e">>

Literals == {gauss, gaussian, lorentz, lorentzian, halfsine, half_sine,
             fullsine, full_sine, bisquare, bi_square}

\* spellings of the literals in lower, upper and mixed case
CaseVariants(s) ==
    {UpperAt(s, S) : S \in {{}, 1..Len(s), {i \in 1..Len(s) : i % 2 = 0}}}

\* names that are no built-in: module names (one of them with upper case
\* letters) and a proper prefix of a literal
OtherNames == {<<"M","y",".","s","o">>, <<"l","i","b">>, <<"G","a","u","s">>}

Names == UNION {CaseVariants(s) : s \in Literals} \cup OtherNames

(* --------------------------- pure functions ---------------------------- *)
ToLowerChar(c) ==
    IF \E i \in 1..26 : UpperCase[i] = c
    THEN LowerCase[CHOOSE i \in 1..26 : UpperCase[i] = c]
    ELSE c

\* enblend::to_lower
to_lower(s) == [i \in 1..Len(s) |-> ToLowerChar(s[i])]

NoObject == [kind |-> "none", y_optimum |-> 0, width |-> 0,
             library |-> <<>>, symbol |-> "",
             initialize_calls |-> <<>>, function_calls |-> <<>>]

\* new Gaussian(y_optimum, width), new Lorentzian(y_optimum, width), ...
BuiltIn(kind, y_optimum, width) ==
    [NoObject EXCEPT !.kind = kind, !.y_optimum = y_optimum, !.width = width]

NoMessage == [text |-> "", name |-> <<>>, symbol |-> "", what |-> "", note |-> ""]

NoException == [type |-> "", library |-> <<>>, symbol |-> ""]

\* what the environment of one factory call does: the module does not load,
\* or the symbol does not resolve, or the module's curve raises
\* ExposureWeight::error with this message from initialize, or all succeed
Environments ==
    {[load |-> FALSE, resolve |-> FALSE, initialize |-> "ok"],
     [load |-> TRUE, resolve |-> FALSE, initialize |-> "ok"],
     [load |-> TRUE, resolve |-> TRUE, initialize |-> "bad argument"],
     [load |-> TRUE, resolve |-> TRUE, initialize |-> "ok"]}

\* DynamicLoader(library_name): load(path) -> handle | error.  The loader is
\* given the name of the module only, so that is all its error can name.
DynamicLoader_new(library_name, env) ==
    IF env.load
    THEN [ok |-> TRUE, exception |-> NoException]
    ELSE [ok |-> FALSE,
          exception |-> [type |-> "loader", library |-> library_name, symbol |-> ""]]

\* dynamic_loader.resolve<ExposureWeight*>(symbol_name):
\* resolve_symbol(handle, name) -> T | error
DynamicLoader_resolve(library_name, symbol_name, env) ==
    IF env.resolve
    THEN [ok |-> TRUE, exception |-> NoException]
    ELSE [ok |-> FALSE,
          exception |-> [type |-> "loader", library |-> library_name,
                         symbol |-> symbol_name]]

\* variant: failures of the loader are ignored
DynamicExposureWeight_new_unchecked(library_name, symbol_name, env) ==
    [ok |-> TRUE,
     object |-> [kind |-> "Dynamic", y_optimum |-> AdapterYOptimum,
                 width |-> AdapterWidth, library |-> library_name,
                 symbol |-> symbol_name,
                 initialize_calls |-> <<>>, function_calls |-> <<>>],
     events |-> <<"load", "resolve", "new">>,
     exception |-> [type |-> "", library |-> <<>>, symbol |-> ""]]

\* DynamicExposureWeight(library_name, symbol_name): members are initialized
\* in declaration order, so the module is loaded before the symbol is
\* resolved; a failure of either step leaves the constructor as the
\* loader's exception and no object comes into being
DynamicExposureWeight_new(library_name, symbol_name, env) ==
    LET dynamic_loader == DynamicLoader_new(library_name, env)
        function == DynamicLoader_resolve(library_name, symbol_name, env)
    IN IF ~dynamic_loader.ok
       THEN [ok |-> FALSE, object |-> NoObject, events |-> <<"load">>,
             exception |-> dynamic_loader.exception]
       ELSE IF ~function.ok
       THEN [ok |-> FALSE, object |-> NoObject, events |-> <<"load", "resolve">>,
             exception |-> function.exception]
       ELSE [ok |-> TRUE,
             object |-> [NoObject EXCEPT !.kind = "Dynamic",
                                         !.y_optimum = AdapterYOptimum,
                                         !.width = AdapterWidth,
                                         !.library = library_name,
                                         !.symbol = symbol_name],
             events |-> <<"load", "resolve", "new">>,
             exception |-> NoException]

\* variant: initialize is not carried out
DynamicExposureWeight_initialize_skipped(object, y_optimum, width_parameter, argument_list) ==
    object

\* DynamicExposureWeight::initialize: forwards to function->initialize
DynamicExposureWeight_initialize(object, y_optimum, width_parameter, argument_list) ==
    [object EXCEPT
        !.initialize_calls = Append(@, <<y_optimum, width_parameter, argument_list>>),
        !.function_calls = Append(@, <<y_optimum, width_parameter, argument_list>>)]

Outcome(status, object, allocated, events, message, exception) ==
    [status |-> status, object |-> object, allocated |-> allocated,
     events |-> events, message |-> message, exception |-> exception]

\* const std::string symbol_name(arguments.front())
symbol_name_of(arguments) == Head(arguments)

\* variant: the symbol name is not removed from the forwarded arguments
user_arguments_with_symbol(arguments) == arguments

\* std::copy(std::next(arguments.begin()), arguments.end(), back_inserter(user_arguments))
user_arguments_of(arguments) == Tail(arguments)

\* variant: the module is loaded before the argument list is examined
no_symbol_after_load(name) ==
    Outcome("exit", NoObject, FALSE, <<"load", "exit">>,
            [NoMessage EXCEPT !.text = "unknown built-in exposure weight function",
                              !.name = name],
            NoException)

\* if (arguments.empty()) {std::cerr << ...; exit(1);}
no_symbol_outcome(name) ==
    Outcome("exit", NoObject, FALSE, <<"exit">>,
            [NoMessage EXCEPT !.text = "unknown built-in exposure weight function",
                              !.name = name],
            NoException)

\* variant: the handler reports the error and goes on to return the adapter
catch_error_swallowed(name, symbol_name, weight_object, events, what) ==
    Outcome("return", weight_object, TRUE, Append(events, "return"),
            [NoMessage EXCEPT !.text = "user-defined weight function raised exception",
                              !.name = name, !.symbol = symbol_name, !.what = what],
            NoException)

\* catch (ExposureWeight::error& exception) {std::cerr << ...; exit(1);}
catch_error(name, symbol_name, weight_object, events, what) ==
    Outcome("exit", weight_object, TRUE, Append(events, "exit"),
            [NoMessage EXCEPT !.text = "user-defined weight function raised exception",
                              !.name = name, !.symbol = symbol_name, !.what = what],
            NoException)

make_dynamic_weight_function(name, arguments, y_optimum, width, env) ==
    IF arguments = <<>>
    THEN no_symbol_outcome(name)
    ELSE LET symbol_name == symbol_name_of(arguments)
             user_arguments == user_arguments_of(arguments)
             constructed == DynamicExposureWeight_new(name, symbol_name, env)
         IN IF ~constructed.ok
            THEN \* not an ExposureWeight::error: leaves the try block uncaught
                 Outcome("throw", NoObject, FALSE, Append(constructed.events, "throw"),
                         NoMessage, constructed.exception)
            ELSE LET weight_object ==
                         DynamicExposureWeight_initialize(constructed.object,
                                                          y_optimum, width, user_arguments)
                     events == Append(constructed.events, "initialize")
                 IN IF env.initialize # "ok"
                    THEN catch_error(name, symbol_name, weight_object, events,
                                     env.initialize)
                    ELSE Outcome("return", weight_object, TRUE,
                                 Append(events, "return"), NoMessage, NoException)

\* variant: the spelling "bi-square" is not recognised
built_in_kind_no_bi_square(possible_built_in) ==
    IF possible_built_in = gauss \/ possible_built_in = gaussian
    THEN "Gaussian"
    ELSE IF possible_built_in = lorentz \/ possible_built_in = lorentzian
    THEN "Lorentzian"
    ELSE IF possible_built_in = halfsine \/ possible_built_in = half_sine
    THEN "HalfSinusodial"
    ELSE IF possible_built_in = fullsine \/ possible_built_in = full_sine
    THEN "FullSinusodial"
    ELSE IF possible_built_in = bisquare
    THEN "Bisquare"
    ELSE "none"

\* the if/else-if chain over possible_built_in
built_in_kind(possible_built_in) ==
    IF possible_built_in = gauss \/ possible_built_in = gaussian
    THEN "Gaussian"
    ELSE IF possible_built_in = lorentz \/ possible_built_in = lorentzian
    THEN "Lorentzian"
    ELSE IF possible_built_in = halfsine \/ possible_built_in = half_sine
    THEN "HalfSinusodial"
    ELSE IF possible_built_in = fullsine \/ possible_built_in = full_sine
    THEN "FullSinusodial"
    ELSE IF possible_built_in = bisquare \/ possible_built_in = bi_square
    THEN "Bisquare"
    ELSE "none"

\* variant: an unknown name falls back to a default Gaussian
no_dynamic_loader_fallback(name) ==
    Outcome("return", BuiltIn("Gaussian", AdapterYOptimum, AdapterWidth), TRUE,
            <<"new", "return">>, NoMessage, NoException)

\* the #else branch: no HAVE_DYNAMICLOADER_IMPL
no_dynamic_loader_outcome(name) ==
    Outcome("exit", NoObject, FALSE, <<"exit">>,
            [NoMessage EXCEPT !.text = "unknown built-in exposure weight function",
                              !.name = name,
                              !.note = "no support for dynamic loading"],
            NoException)

\* make_weight_function after "delete ExposureWeightFunction"
make_weight_function(name, arguments, y_optimum, width, have_dynamicloader_impl, env) ==
    LET possible_built_in == to_lower(name)
        kind == built_in_kind(possible_built_in)
    IN IF kind # "none"
       THEN Outcome("return", BuiltIn(kind, y_optimum, width), TRUE,
                    <<"new", "return">>, NoMessage, NoException)
       ELSE IF have_dynamicloader_impl
       THEN make_dynamic_weight_function(name, arguments, y_optimum, width, env)
       ELSE no_dynamic_loader_outcome(name)

\* variant: the previous instance is not released
delete_leak(objects, p) == objects

\* delete p: the object is no longer live (delete nullptr does nothing)
delete(objects, p) == objects \ {p}

(* ------------------------------- state --------------------------------- *)
VARIABLES
    HAVE_DYNAMICLOADER_IMPL, \* build flag
    ExposureWeightFunction,  \* the global pointer; 0 is nullptr
    live,                    \* identities of the ExposureWeight objects alive
    occupant,                \* the live object at the address that
                             \* ExposureWeightFunction holds; 0 if none
    kept,                    \* objects the caller holds outside the slot
    release_count,           \* how often each object was deleted
    allocated,               \* number of objects created so far
    calls,                   \* number of make_weight_function calls so far
    pc,                      \* "idle", "deleted", "returned", "exited",
                             \* "crashed", and "unwinding": an exception has
                             \* left make_weight_function
    call,                    \* parameters of the call in progress
    loader,                  \* the environment's behaviour in this call
    trace,                   \* events of the call in progress, in order
    weight_object,           \* fields of the object this call constructed
    result,                  \* pointer returned by the call; 0 if none
    exit_status,             \* -1 while the process runs
    message,                 \* what was written to std::cerr
    exception,               \* exception in flight
    \* check_weight_function
    n, weights, remaining, thread, number_of_faults, check_pc, check_result

factory_vars == <<HAVE_DYNAMICLOADER_IMPL, ExposureWeightFunction, live, occupant, kept,
                  release_count,
                  allocated, calls, pc, call, loader, trace, weight_object, result, exit_status,
                  message, exception>>
check_vars == <<n, weights, remaining, thread, number_of_faults, check_pc, check_result>>
vars == <<factory_vars, check_vars>>

Ids == 1..(MaxCalls + 1)

NoCall == [name |-> <<>>, arguments |-> <<>>, y_optimum |-> 0, width |-> 0]
NoLoader == [load |-> TRUE, resolve |-> TRUE, initialize |-> "ok"]

\* the state before the first call: ExposureWeightFunction is defined by the
\* program that links this file; it is either nullptr or a first instance
FactoryInit ==
    /\ HAVE_DYNAMICLOADER_IMPL \in BOOLEAN
    /\ \/ /\ ExposureWeightFunction = 0
          /\ live = {}
          /\ occupant = 0
          /\ allocated = 0
       \/ /\ ExposureWeightFunction = 1
          /\ live = {1}
          /\ occupant = 1
          /\ allocated = 1
    /\ kept = {}
    /\ release_count = [i \in Ids |-> 0]
    /\ calls = 0
    /\ pc = "idle"
    /\ call = NoCall
    /\ loader = NoLoader
    /\ trace = <<>>
    /\ weight_object = NoObject
    /\ result = 0
    /\ exit_status = -1
    /\ message = NoMessage
    /\ exception = NoException

CheckIdle ==
    /\ n = 0
    /\ weights = <<>>
    /\ remaining = {}
    /\ thread = [t \in 1..NumThreads |-> [pc |-> "idle", i |-> 0, w |-> 0, r |-> 0]]
    /\ number_of_faults = 0
    /\ check_pc = "idle"
    /\ check_result = "none"

Init == FactoryInit /\ CheckIdle

\* entry of make_weight_function and its first statement,
\* delete ExposureWeightFunction.  The pointer itself is left as it is.
\* The delete destroys whatever live object is at the address the pointer
\* holds: the instance that was stored there or, when the pointer dangles, a
\* later instance that the allocator placed at the freed address.  When no
\* live object is there the instance is destroyed a second time, which is
\* undefined behaviour: the process goes on or crashes.
Call(name, arguments, y_optimum, width) ==
    /\ pc = "idle"
    /\ calls < MaxCalls
    /\ calls' = calls + 1
    /\ call' = [name |-> name, arguments |-> arguments,
                y_optimum |-> y_optimum, width |-> width]
    /\ trace' = <<"delete">>
    /\ occupant' = 0
    /\ IF ExposureWeightFunction = 0
       THEN /\ UNCHANGED <<live, release_count>>
            /\ pc' = "deleted"
       ELSE IF occupant # 0
       THEN /\ live' = delete(live, occupant)
            /\ release_count' = [release_count EXCEPT ![occupant] = @ + 1]
            /\ pc' = "deleted"
       ELSE /\ live' = delete(live, ExposureWeightFunction)
            /\ release_count' = [release_count EXCEPT ![ExposureWeightFunction] = @ + 1]
            /\ pc' \in {"deleted", "crashed"}
    /\ UNCHANGED <<HAVE_DYNAMICLOADER_IMPL, ExposureWeightFunction, kept, allocated, loader,
                   weight_object, result, exit_status, message, exception>>
    /\ UNCHANGED check_vars

\* the rest of make_weight_function: look the name up and construct, load or
\* fail.  A new object may be placed at the address of the object deleted at
\* the start of the call, which ExposureWeightFunction still holds.
Resolve(env) ==
    /\ pc = "deleted"
    /\ LET outcome == make_weight_function(call.name, call.arguments, call.y_optimum,
                                           call.width, HAVE_DYNAMICLOADER_IMPL, env)
           id == allocated + 1
       IN /\ loader' = IF \E i \in 1..Len(outcome.events) : outcome.events[i] = "load"
                       THEN env ELSE NoLoader
          /\ trace' = trace \o outcome.events
          /\ IF outcome.allocated
             THEN /\ live' = live \cup {id}
                  /\ allocated' = id
                  /\ IF ExposureWeightFunction # 0 /\ occupant = 0
                     THEN occupant' \in {0, id}
                     ELSE occupant' = occupant
             ELSE UNCHANGED <<live, allocated, occupant>>
          /\ weight_object' = outcome.object
          /\ result' = IF outcome.status = "return" THEN id ELSE 0
          /\ pc' = CASE outcome.status = "return" -> "returned"
                     [] outcome.status = "exit" -> "exited"
                     [] outcome.status = "throw" -> "unwinding"
          /\ exit_status' = IF outcome.status = "exit" THEN ExitFailure ELSE exit_status
          /\ message' = outcome.message
          /\ exception' = outcome.exception
    /\ UNCHANGED <<HAVE_DYNAMICLOADER_IMPL, ExposureWeightFunction, kept, release_count,
                   calls, call>>
    /\ UNCHANGED check_vars

\* the caller: ExposureWeightFunction = make_weight_function(...)
CallerStore ==
    /\ pc = "returned"
    /\ ExposureWeightFunction' = result
    /\ occupant' = result
    /\ result' = 0
    /\ weight_object' = NoObject
    /\ pc' = "idle"
    /\ call' = NoCall
    /\ loader' = NoLoader
    /\ trace' = <<>>
    /\ UNCHANGED <<HAVE_DYNAMICLOADER_IMPL, live, kept, release_count, allocated, calls,
                   exit_status, message, exception>>
    /\ UNCHANGED check_vars

\* a caller that keeps the returned pointer elsewhere
CallerDiscard ==
    /\ pc = "returned"
    /\ kept' = kept \cup {result}
    /\ result' = 0
    /\ weight_object' = NoObject
    /\ pc' = "idle"
    /\ call' = NoCall
    /\ loader' = NoLoader
    /\ trace' = <<>>
    /\ UNCHANGED <<HAVE_DYNAMICLOADER_IMPL, ExposureWeightFunction, live, occupant,
                   release_count, allocated, calls, exit_status, message, exception>>
    /\ UNCHANGED check_vars

\* a caller that catches the exception that left make_weight_function and
\* goes on; ExposureWeightFunction still holds the address of the instance
\* deleted at the start of the call
CallerCatch ==
    /\ pc = "unwinding"
    /\ exception' = NoException
    /\ weight_object' = NoObject
    /\ pc' = "idle"
    /\ call' = NoCall
    /\ loader' = NoLoader
    /\ trace' = <<>>
    /\ UNCHANGED <<HAVE_DYNAMICLOADER_IMPL, ExposureWeightFunction, live, occupant, kept,
                   release_count, allocated, calls, result, exit_status, message>>
    /\ UNCHANGED check_vars

MakeCall ==
    \E name \in Names, arguments \in ArgumentLists, p \in Parameters :
        Call(name, arguments, p[1], p[2])

DoResolve == \E env \in Environments : Resolve(env)

Next ==
    \/ MakeCall
    \/ DoResolve
    \/ CallerStore
    \/ CallerCatch

Spec == Init /\ [][Next]_vars

NextAnyCaller ==
    \/ MakeCall
    \/ DoResolve
    \/ CallerStore
    \/ CallerCatch
    \/ CallerDiscard

SpecAnyCaller == Init /\ [][NextAnyCaller]_vars

(* ----------------------- check_weight_function ------------------------- *)
\* weights in halves: -0.5, 0.5, 1 and 1.5
WeightOne == 2
WeightValues == {-1, 1, 2, 3}

\* y = static_cast<double>(i) / static_cast<double>(n - 1), as a fraction
y_of(i, samples) == <<i, samples - 1>>

SamplePoints(samples) == {y_of(i, samples) : i \in 0..(samples - 1)}

\* if (w < 0.0 || w >= 1.0)
is_fault(w) == w < 0 \/ w >= WeightOne

IdleThread == [pc |-> "idle", i |-> 0, w |-> 0, r |-> 0]

\* entry of check_weight_function, up to the start of the parallel loop; the
\* curve is any function from the sample points to weights
CheckCall(samples, curve) ==
    /\ check_pc = "idle"
    /\ samples >= 2
    /\ n' = samples
    /\ weights' = curve
    /\ remaining' = 0..(samples - 1)
    /\ number_of_faults' = 0
    /\ check_pc' = "loop"
    /\ UNCHANGED <<thread, check_result>>
    /\ UNCHANGED factory_vars

\* a thread of the team starts an iteration of the loop that no thread has
\* run: it computes y and const double w = weight_function->weight(y)
Evaluate(t, i) ==
    /\ check_pc = "loop"
    /\ thread[t].pc = "idle"
    /\ i \in remaining
    /\ remaining' = remaining \ {i}
    /\ thread' = [thread EXCEPT ![t] = [pc |-> "test", i |-> i,
                                        w |-> weights[y_of(i, n)], r |-> 0]]
    /\ UNCHANGED <<n, weights, number_of_faults, check_pc, check_result>>
    /\ UNCHANGED factory_vars

\* if (w < 0.0 || w >= 1.0)
Test(t) ==
    /\ thread[t].pc = "test"
    /\ thread' = [thread EXCEPT ![t].pc = IF is_fault(thread[t].w)
                                          THEN "load" ELSE "idle"]
    /\ UNCHANGED <<n, weights, remaining, number_of_faults, check_pc, check_result>>
    /\ UNCHANGED factory_vars

\* ++number_of_faults, first half.  number_of_faults is shared by the threads
\* of the team and the statement is under no atomic or critical directive:
\* the thread reads the counter ...
IncrementLoad(t) ==
    /\ thread[t].pc = "load"
    /\ thread' = [thread EXCEPT ![t].r = number_of_faults, ![t].pc = "store"]
    /\ UNCHANGED <<n, weights, remaining, number_of_faults, check_pc, check_result>>
    /\ UNCHANGED factory_vars

\* ... and writes back the value it read plus one
IncrementStore(t) ==
    /\ thread[t].pc = "store"
    /\ number_of_faults' = thread[t].r + 1
    /\ thread' = [thread EXCEPT ![t].pc = "idle", ![t].r = 0]
    /\ UNCHANGED <<n, weights, remaining, check_pc, check_result>>
    /\ UNCHANGED factory_vars

\* the implicit barrier at the end of the loop, then
\* return number_of_faults == omp::atomic_t()
CheckReturn ==
    /\ check_pc = "loop"
    /\ remaining = {}
    /\ \A t \in 1..NumThreads : thread[t].pc = "idle"
    /\ check_result' = IF number_of_faults = 0 THEN "true" ELSE "false"
    /\ check_pc' = "returned"
    /\ UNCHANGED <<n, weights, remaining, thread, number_of_faults>>
    /\ UNCHANGED factory_vars

StartCheck ==
    \E samples \in 2..MaxN :
        \E curve \in [SamplePoints(samples) -> WeightValues] :
            CheckCall(samples, curve)

DoEvaluate == \E t \in 1..NumThreads, i \in 0..(MaxN - 1) : Evaluate(t, i)
DoTest == \E t \in 1..NumThreads : Test(t)
DoIncrementLoad == \E t \in 1..NumThreads : IncrementLoad(t)
DoIncrementStore == \E t \in 1..NumThreads : IncrementStore(t)

NextCheck ==
    \/ StartCheck
    \/ DoEvaluate
    \/ DoTest
    \/ DoIncrementLoad
    \/ DoIncrementStore
    \/ CheckReturn

\* the factory takes no part in a check: its state is the one of a build
\* without dynamic loading before the first call
InitCheck ==
    /\ Init
    /\ ~HAVE_DYNAMICLOADER_IMPL
    /\ ExposureWeightFunction = 0

SpecCheck == InitCheck /\ [][NextCheck]_vars

(* ------------------------------ properties ----------------------------- *)
\* a call has got past the name lookup
Resolved == pc \in {"returned", "exited", "unwinding"}

\* the alias table of the interface description, by variant
AliasesOf(kind) ==
    CASE kind = "Gaussian" -> {gauss, gaussian}
      [] kind = "Lorentzian" -> {lorentz, lorentzian}
      [] kind = "HalfSinusodial" -> {halfsine, half_sine}
      [] kind = "FullSinusodial" -> {fullsine, full_sine}
      [] kind = "Bisquare" -> {bisquare, bi_square}

Variants == {"Gaussian", "Lorentzian", "HalfSinusodial", "FullSinusodial", "Bisquare"}

SpellingsOf(kind) == UNION {CaseVariants(s) : s \in AliasesOf(kind)}

IsBuiltInName(name) == \E kind \in Variants : name \in SpellingsOf(kind)

RestOf(arguments) == [i \in 1..(Len(arguments) - 1) |-> arguments[i + 1]]

Occurrences(events, e) == Cardinality({i \in 1..Len(events) : events[i] = e})

\* the dynamic path was taken and a symbol name was supplied
OnDynamicPath ==
    /\ Resolved
    /\ HAVE_DYNAMICLOADER_IMPL
    /\ ~IsBuiltInName(call.name)
    /\ call.arguments # <<>>

C2_BuiltInResolution ==
    \A kind \in Variants :
        (Resolved /\ call.name \in SpellingsOf(kind)) =>
            /\ pc = "returned"
            /\ result \in live
            /\ weight_object = [NoObject EXCEPT !.kind = kind,
                                                !.y_optimum = call.y_optimum,
                                                !.width = call.width]
            /\ Occurrences(trace, "load") = 0
            /\ Occurrences(trace, "resolve") = 0

C2_Witness ==
    /\ pc = "returned"
    /\ HAVE_DYNAMICLOADER_IMPL
    /\ call.name \in SpellingsOf("Bisquare")
    /\ call.name \notin Literals
    /\ call.arguments # <<>>
    /\ weight_object.kind = "Bisquare"

\* C3: without dynamic loading, a name that is no built-in alias ends the
\* process with a non-zero status and a report; no curve is returned or created.
C3_UnknownNameWithoutLoader ==
    (Resolved /\ ~HAVE_DYNAMICLOADER_IMPL /\ ~IsBuiltInName(call.name)) =>
        /\ pc = "exited"
        /\ exit_status # 0
        /\ result = 0
        /\ weight_object = NoObject
        /\ message.text # ""
        /\ message.name = call.name
        /\ message.note = "no support for dynamic loading"

C3_Witness ==
    /\ pc = "exited"
    /\ ~HAVE_DYNAMICLOADER_IMPL
    /\ ~IsBuiltInName(call.name)
    /\ call.arguments # <<>>
    /\ exit_status = ExitFailure

\* C4: with dynamic loading, a name that is no built-in alias and an empty
\* argument list end the process with a non-zero status before any module is
\* loaded or symbol resolved; no curve is returned.
C4_NoSymbolArgument ==
    (Resolved /\ HAVE_DYNAMICLOADER_IMPL /\ ~IsBuiltInName(call.name)
       /\ call.arguments = <<>>) =>
        /\ pc = "exited"
        /\ exit_status # 0
        /\ result = 0
        /\ weight_object = NoObject
        /\ Occurrences(trace, "load") = 0
        /\ Occurrences(trace, "resolve") = 0

C4_Witness ==
    /\ pc = "exited"
    /\ HAVE_DYNAMICLOADER_IMPL
    /\ ~IsBuiltInName(call.name)
    /\ call.arguments = <<>>
    /\ exit_status = ExitFailure

\* C5: when the loaded curve's initialize raises ExposureWeight::error, the
\* factory reports symbol, module and the curve's message and ends the
\* process with a non-zero status; the adapter is not returned.
C5_InitializeErrorIsFatal ==
    (OnDynamicPath /\ loader.load /\ loader.resolve /\ loader.initialize # "ok") =>
        /\ pc = "exited"
        /\ exit_status # 0
        /\ result = 0
        /\ message.symbol = call.arguments[1]
        /\ message.name = call.name
        /\ message.what = loader.initialize
        /\ ExposureWeightFunction \notin live

C5_Witness ==
    /\ OnDynamicPath
    /\ loader.load /\ loader.resolve /\ loader.initialize # "ok"
    /\ pc = "exited"
    /\ Occurrences(trace, "initialize") = 1

\* what the failure is reported with: the exception in flight, or the message
\* written when the process has ended
FailureReport ==
    IF pc = "exited"
    THEN [library |-> message.name, symbol |-> message.symbol]
    ELSE [library |-> exception.library, symbol |-> exception.symbol]

C8_DynamicArguments ==
    /\ (OnDynamicPath /\ Occurrences(trace, "initialize") > 0) =>
          /\ weight_object.library = call.name
          /\ weight_object.symbol = call.arguments[1]
          /\ weight_object.initialize_calls =
                 <<<<call.y_optimum, call.width, RestOf(call.arguments)>>>>
          /\ weight_object.function_calls = weight_object.initialize_calls
    /\ (OnDynamicPath /\ pc = "unwinding") =>
          /\ exception.library = call.name
          /\ Occurrences(trace, "resolve") = 1 => exception.symbol = call.arguments[1]

C8_Witness ==
    /\ pc = "returned"
    /\ weight_object.kind = "Dynamic"
    /\ Len(call.arguments) = 3
    /\ call.arguments[2] # call.arguments[3]
    /\ \E i \in 1..Len(call.name) : ToLowerChar(call.name[i]) # call.name[i]

EventRank == [load |-> 1, resolve |-> 2, initialize |-> 3, return |-> 4]

\* C9 as claimed: every returned instance has had initialize called exactly once.
C9_InitializeOncePerInstance ==
    pc = "returned" => Len(weight_object.initialize_calls) = 1

\* C9 as amended: a returned dynamic curve has had initialize called exactly
\* once, after load and resolve and before the return; the factory does not
\* call initialize on a built-in, whose constructor takes y_optimum and
\* width; load, resolve, initialize and return happen at most once per call.
C9_InitializeOnDynamicPathOnly ==
    /\ pc = "returned" =>
          IF weight_object.kind = "Dynamic"
          THEN /\ Len(weight_object.initialize_calls) = 1
               /\ trace = <<"delete", "load", "resolve", "new", "initialize", "return">>
          ELSE /\ Len(weight_object.initialize_calls) = 0
               /\ trace = <<"delete", "new", "return">>
    /\ \A e \in {"load", "resolve", "initialize", "return"} : Occurrences(trace, e) <= 1
    /\ \A i, j \in 1..Len(trace) :
          (i < j /\ trace[i] \in DOMAIN EventRank /\ trace[j] \in DOMAIN EventRank) =>
              EventRank[trace[i]] < EventRank[trace[j]]
    /\ Occurrences(trace, "initialize") = 1 =>
          /\ Occurrences(trace, "load") = 1
          /\ Occurrences(trace, "resolve") = 1

C9_Witness ==
    /\ pc = "returned"
    /\ weight_object.kind = "Dynamic"
    /\ Len(weight_object.initialize_calls) = 1
    /\ result \in live

\* C10: no instance is released more than once, and when a call returns or
\* ends the process ExposureWeightFunction does not refer to a released
\* instance: it is nullptr, or the instance stored in it is live, or another
\* live instance is at the address it holds.
C10_NoDoubleReleaseNoDanglingSlot ==
    /\ \A id \in Ids : release_count[id] <= 1
    /\ pc \in {"returned", "exited"} =>
          \/ ExposureWeightFunction = 0
          \/ ExposureWeightFunction \in live
          \/ occupant # 0

\* C7: when check_weight_function returns, the counter equals the number of
\* sample points whose weight is below 0 or at least 1, and the result is
\* true exactly if there is none.
FaultySamples == {i \in 0..(n - 1) : weights[y_of(i, n)] < 0 \/ weights[y_of(i, n)] >= WeightOne}

C7_FaultCount ==
    check_pc = "returned" =>
        /\ number_of_faults = Cardinality(FaultySamples)
        /\ check_result = IF FaultySamples = {} THEN "true" ELSE "false"
        /\ (\E i \in 0..(n - 1) : weights[y_of(i, n)] \in {WeightOne, 3}) =>
               check_result = "false"

\* the value check_weight_function returns: true exactly if no sample point
\* has a weight below 0 or at least 1
CheckResultCorrect ==
    check_pc = "returned" =>
        check_result = IF FaultySamples = {} THEN "true" ELSE "false"

====
